---- MODULE Spec2Model ----
(* Model of the migration pipeline: the pipeline driver (mvp_migrator.py), *)
(* the pattern orchestrator (orchestrator.py), the three rewrite handlers   *)
(* and write-back (claude_fixer.py, migration_patterns/*.py).               *)
EXTENDS Integers, Sequences, FiniteSets, TLC

\* ---------------------------------------------------------------- bounds
NumJava == 2        \* Java files in the project
NumCfg == 1         \* application.* config files in the project
MaxTargets == 2     \* (file, pattern) matches in the project at the start
MaxTokens == 1      \* largest input / output usage one service call reports
MaxChanges == 1     \* largest change count the recipe runner reports
MaxCompErrors == 1  \* largest number of parsed compilation errors
MaxLines == 4       \* lines of a service response
MaxOutLines == 3    \* lines of the recipe runner's output
MaxPaths == 2       \* distinct paths the recipe runner's output names
MaxCfgLines == 2    \* lines of a configuration text given to the validator
MaxItems == 2       \* places of a Java source the detector can tell apart

JavaFiles == 1..NumJava
CfgFiles == (NumJava + 1)..(NumJava + NumCfg)
Files == JavaFiles \cup CfgFiles

\* ------------------------------------------------------- file contents
\* A content is abstracted to: which text it is (tag), the detector
\* signatures it matches (sigs) and whether it parses without ERROR nodes (wf).
NoFile == [tag |-> "none", sigs |-> {}, wf |-> FALSE]
Partial == [tag |-> "partial", sigs |-> {}, wf |-> FALSE]

Original(s) == [tag |-> "orig", sigs |-> s, wf |-> TRUE]

VARIABLES
  dry_run,          \* --dry-run flag
  hasPom,           \* the project has a root pom.xml
  fs,               \* file -> current content of the file
  bak,              \* file -> content of its .bak sibling (NoFile if absent)
  pc,               \* position of the driver
  stages,           \* stages entered so far, in order
  analysis,         \* analyze_project's result
  errors,           \* run_migration_pipeline: errors
  ow_ok, ow_changes,
  recipe,           \* what the recipe runner did: subprocess invoked, goal
  pattern_results,  \* PatternOrchestrator.run: results
  pattern,          \* index in PatternOrder of the pattern being run
  files, idx,       \* _run_*: files, position of the loop
  res,              \* _run_*: result
  ret,              \* the handler's successful return value for files[idx]
  lastCall,         \* this iteration's handler call: what the service did, how it ended
  wmf,              \* the write_migrated_file call in progress
  handled, written, \* pattern -> file -> number of handler calls / write-backs
  order,            \* pattern start/end events, in order
  faulted, snap,    \* pattern -> a batch-level fault was caught / result before it
  comp,             \* what the compilation stage did
  comp_ok, comp_errors,
  status,           \* the status the driver logs
  result,           \* the dict run_migration_pipeline returns
  report, exit_code,
  app               \* a text function applied on its own: input, output

vars == <<dry_run, hasPom, fs, bak, pc, stages, analysis, errors, ow_ok,
          ow_changes, recipe, pattern_results, pattern, files, idx, res, ret,
          lastCall, wmf, handled, written, order, faulted, snap, comp, comp_ok,
          comp_errors, status, result, report, exit_code, app>>

\* what no step of the pipeline changes
envVars == <<dry_run, hasPom, app>>
fsVars == <<fs, bak>>
orchVars == <<pattern_results, pattern, files, idx, res, ret, lastCall, wmf, handled,
              written, order, faulted, snap>>
recipeVars == <<ow_ok, ow_changes, recipe>>
compVars == <<comp, comp_ok, comp_errors, status>>
endVars == <<result, report, exit_code>>

\* ------------------------------------------------------------ helpers
RECURSIVE SeqOfSet(_)
\* the elements of a set of file numbers in increasing order (the fixed
\* order in which one directory walk yields them)
SeqOfSet(S) ==
  IF S = {} THEN <<>>
  ELSE LET m == CHOOSE x \in S : \A y \in S : x <= y
       IN <<m>> \o SeqOfSet(S \ {m})

\* the hibernate pattern run before the config pattern
PatternOrder_swapped == <<"security", "hibernate", "config">>

PatternOrder == <<"security", "config", "hibernate">>
PatternNames == {"security", "config", "hibernate"}

EmptyResult == [found |-> 0, migrated |-> 0, tokens |-> 0, errors |-> <<>>]
ZeroTotals == [found |-> 0, migrated |-> 0, tokens |-> 0]

Entry(k, f, m) == [kind |-> k, file |-> f, msg |-> m]


\* ---------------------------------------------------------- detectors
\* find_security_configs: the Java files whose tree has a class extending
\* WebSecurityConfigurerAdapter; a file that cannot be read is skipped.
find_security_configs(fsys, unreadable) ==
  SeqOfSet({f \in JavaFiles \ unreadable : "security" \in fsys[f].sigs})

\* find_hibernate_patterns: the Java files with a deprecated annotation or
\* a deprecated dialect name; a file that cannot be read is skipped.
find_hibernate_patterns(fsys, unreadable) ==
  SeqOfSet({f \in JavaFiles \ unreadable : "hibernate" \in fsys[f].sigs})

\* find_config_files: the application.* files holding a deprecated marker.
find_config_files(fsys, unreadable) ==
  SeqOfSet({f \in CfgFiles \ unreadable : "config" \in fsys[f].sigs})

Candidates(p) == IF p = "config" THEN CfgFiles ELSE JavaFiles

\* a detector that yields every match twice
Detect_twice(p, fsys, unreadable) ==
  LET once == CASE p = "security" -> find_security_configs(fsys, unreadable)
                [] p = "config" -> find_config_files(fsys, unreadable)
                [] p = "hibernate" -> find_hibernate_patterns(fsys, unreadable)
  IN once \o once

Detect(p, fsys, unreadable) ==
  CASE p = "security" -> find_security_configs(fsys, unreadable)
    [] p = "config" -> find_config_files(fsys, unreadable)
    [] p = "hibernate" -> find_hibernate_patterns(fsys, unreadable)

\* ----------------------------------------------------- rewrite handlers
\* What the environment does during one handler call:
\*   rd    reading the source: "ok", "oserror", or "decode" (not UTF-8)
\*   svc   the service call: "ok", "apierror" (anthropic.APIError),
\*         "othererror" (any other exception), "malformed" (a response
\*         without a usable content[0] / usage)
\*   wf    the extracted text parses without ERROR nodes
\*   keep  the returned text still matches the other patterns' signatures
\*         the source matched (its own pattern is not detected again in
\*         the run, so whether that signature survives is not modelled)
\*   tin, tout   the usage the response reports
ReadOutcomes == {"ok", "oserror", "decode"}
SvcOutcomes == {"ok", "apierror", "othererror", "malformed"}
Envs == [rd : ReadOutcomes, svc : SvcOutcomes, wf : BOOLEAN, keep : BOOLEAN,
         tin : 1..MaxTokens, tout : 1..MaxTokens]

Raised == [raised |-> TRUE, ok |-> FALSE, content |-> NoFile, msg |-> "", tokens |-> 0]
Failure(m, t) == [raised |-> FALSE, ok |-> FALSE, content |-> NoFile, msg |-> m, tokens |-> t]
Success(c, t) == [raised |-> FALSE, ok |-> TRUE, content |-> c, msg |-> "", tokens |-> t]
NoReturn == Failure("", 0)

NoHandlerCall == [pattern |-> "none", rd |-> "ok", called |-> FALSE,
                  svcError |-> FALSE, usage |-> 0, raised |-> FALSE,
                  ok |-> FALSE, tokens |-> 0, before |-> 0]
\* the service call was reached and raised an error
ServiceError(e) == e.rd = "ok" /\ e.svc \in {"apierror", "othererror"}
\* client.messages.create is reached: only after the source was read
ServiceCalled(e) == e.rd = "ok"
\* input_tokens + output_tokens of the response, when there is one
Usage(e) == IF e.rd = "ok" /\ e.svc = "ok" THEN e.tin + e.tout ELSE 0

Migrated(p, c, e) ==
  [tag |-> p, sigs |-> IF e.keep THEN c.sigs \ {p} ELSE {}, wf |-> e.wf]

\* a syntax check that accepts everything
validate_java_syntax_always(code) == TRUE

validate_java_syntax(code) == code.wf

migrate_security_config(c, e) ==
  IF e.rd = "oserror" THEN Failure("read", 0)
  ELSE IF e.rd = "decode" THEN Raised
  ELSE IF e.svc = "apierror" THEN Failure("api", 0)
  ELSE IF e.svc = "othererror" THEN Raised
  ELSE IF e.svc = "malformed" THEN Raised
  ELSE LET tokens_total == e.tin + e.tout
           migrated_code == Migrated("security", c, e)
       IN IF ~validate_java_syntax(migrated_code)
          THEN Failure("syntax", tokens_total)
          ELSE Success(migrated_code, tokens_total)

\* a handler whose syntax failure reports no cost
migrate_hibernate_file_nocost(c, e) ==
  IF e.rd = "oserror" THEN Failure("read", 0)
  ELSE IF e.rd = "decode" THEN Raised
  ELSE IF e.svc \in {"apierror", "othererror"} THEN Failure("api", 0)
  ELSE IF e.svc = "malformed" THEN Raised
  ELSE LET migrated_code == Migrated("hibernate", c, e)
       IN IF ~validate_java_syntax(migrated_code)
          THEN Failure("syntax", 0)
          ELSE Success(migrated_code, e.tin + e.tout)

migrate_hibernate_file(c, e) ==
  IF e.rd = "oserror" THEN Failure("read", 0)
  ELSE IF e.rd = "decode" THEN Raised
  ELSE IF e.svc \in {"apierror", "othererror"} THEN Failure("api", 0)
  ELSE IF e.svc = "malformed" THEN Raised
  ELSE LET tokens_total == e.tin + e.tout
           migrated_code == Migrated("hibernate", c, e)
       IN IF ~validate_java_syntax(migrated_code)
          THEN Failure("syntax", tokens_total)
          ELSE Success(migrated_code, tokens_total)

migrate_config_file(c, e) ==
  IF e.rd = "oserror" THEN Failure("read", 0)
  ELSE IF e.rd = "decode" THEN Raised
  ELSE IF e.svc \in {"apierror", "othererror"} THEN Failure("api", 0)
  ELSE IF e.svc = "malformed" THEN Raised
  ELSE Success(Migrated("config", c, e), e.tin + e.tout)

Handler(p, c, e) ==
  CASE p = "security" -> migrate_security_config(c, e)
    [] p = "config" -> migrate_config_file(c, e)
    [] p = "hibernate" -> migrate_hibernate_file(c, e)

\* ------------------------------------------- recipe runner, compilation
ProcOutcomes == {"exit0", "nonzero", "timeout", "nomvn"}

\* a command builder that always applies the recipe
build_maven_command_run(dry) == "run"

\* _build_maven_command: the plugin goal
build_maven_command(dry) == IF dry THEN "dryRun" ELSE "run"

\* a runner that starts the subprocess without looking for pom.xml
run_openrewrite_nopomcheck(pom, proc, n) ==
  IF proc = "exit0" THEN [success |-> TRUE, changes |-> n, invoked |-> TRUE]
  ELSE [success |-> FALSE, changes |-> 0, invoked |-> TRUE]

\* a runner that parses the output of a failed subprocess as well
run_openrewrite_keepcount(pom, proc, n) ==
  IF ~pom THEN [success |-> FALSE, changes |-> 0, invoked |-> FALSE]
  ELSE [success |-> (proc = "exit0"), changes |-> n, invoked |-> TRUE]

run_openrewrite(pom, proc, n) ==
  IF ~pom THEN [success |-> FALSE, changes |-> 0, invoked |-> FALSE]
  ELSE IF proc = "exit0" THEN [success |-> TRUE, changes |-> n, invoked |-> TRUE]
  ELSE [success |-> FALSE, changes |-> 0, invoked |-> TRUE]

validate_compilation(pom, proc) ==
  IF ~pom THEN [success |-> FALSE, invoked |-> FALSE]
  ELSE [success |-> (proc = "exit0"), invoked |-> TRUE]

\* ------------------------------------------------------------ results
\* totals whose found forgets the hibernate pattern
OrchTotals_nohibernate(r) ==
  [found |-> r["security"].found + r["config"].found,
   migrated |-> r["security"].migrated + r["config"].migrated
                + r["hibernate"].migrated,
   tokens |-> r["security"].tokens + r["config"].tokens + r["hibernate"].tokens]

\* totals whose migrated forgets the hibernate pattern
OrchTotals_nomigrated(r) ==
  [found |-> r["security"].found + r["config"].found + r["hibernate"].found,
   migrated |-> r["security"].migrated + r["config"].migrated,
   tokens |-> r["security"].tokens + r["config"].tokens + r["hibernate"].tokens]

OrchTotals(r) ==
  [found |-> r["security"].found + r["config"].found + r["hibernate"].found,
   migrated |-> r["security"].migrated + r["config"].migrated
                + r["hibernate"].migrated,
   tokens |-> r["security"].tokens + r["config"].tokens + r["hibernate"].tokens]

EmptyPatterns ==
  [p \in PatternNames \cup {"totals"} |->
     IF p = "totals" THEN ZeroTotals ELSE EmptyResult]

NoPatterns == [p \in {} |-> EmptyResult]

\* a result whose success ignores the error list (as the logged status does)
make_result_noerrors(an, ok, changes, pr, cok, cerrs, errs) ==
  LET totals == IF "totals" \in DOMAIN pr THEN pr["totals"] ELSE ZeroTotals
  IN [success |-> ok /\ cok,
      analysis |-> an,
      openrewrite_success |-> ok, openrewrite_changes |-> changes,
      claude_configs_found |-> totals.found,
      claude_configs_migrated |-> totals.migrated,
      claude_total_tokens |-> totals.tokens,
      pattern_results |-> pr,
      compilation_success |-> cok,
      compilation_errors |-> cerrs,
      errors |-> errs]

make_result(an, ok, changes, pr, cok, cerrs, errs) ==
  LET totals == IF "totals" \in DOMAIN pr THEN pr["totals"] ELSE ZeroTotals
  IN [success |-> ok /\ cok /\ errs = <<>>,
      analysis |-> an,
      openrewrite_success |-> ok, openrewrite_changes |-> changes,
      claude_configs_found |-> totals.found,
      claude_configs_migrated |-> totals.migrated,
      claude_total_tokens |-> totals.tokens,
      pattern_results |-> pr,
      compilation_success |-> cok,
      compilation_errors |-> cerrs,
      errors |-> errs]

NoAnalysis == [total_java_files |-> 0, estimated_complexity |-> "low"]

NoResult == make_result(NoAnalysis, FALSE, 0, NoPatterns, FALSE, 0, <<>>)

\* a fault handler that resets the counts
BatchFault_reset(r, p) ==
  [EmptyResult EXCEPT !.errors = <<Entry("pattern error", 0, p)>>]

BatchFault(r, p) ==
  [r EXCEPT !.errors = Append(@, Entry("pattern error", 0, p))]


\* ------------------------------------------------- write_migrated_file
NoCall == [file |-> 0, pre |-> NoFile, new |-> NoFile, backupOk |-> FALSE,
           writeAttempted |-> FALSE, writeOk |-> FALSE,
           restoreAttempted |-> FALSE, restoreOk |-> FALSE,
           critical |-> FALSE, raised |-> FALSE, ret |-> FALSE]

\* the value write_migrated_file returns after the write attempt
WmfReturn(writeOk, restoreOk) == writeOk

\* a backup that keeps the first copy it made of a file
BackupCopy_keepfirst(fsys, b, f) ==
  IF b[f] = NoFile THEN [b EXCEPT ![f] = fsys[f]] ELSE b

\* shutil.copy2(file_path, backup_path)
BackupCopy(fsys, b, f) == [b EXCEPT ![f] = fsys[f]]

\* a write-back that goes on to the write whatever the backup did
NextAfterBackup_always(ok) == "write"

\* where write_migrated_file goes after the backup attempt
NextAfterBackup(ok) == IF ok THEN "write" ELSE "wmf_ret"

\* a restore that copies nothing
RestoreCopy_nothing(fsys, b, f) == fsys

\* shutil.copy2(backup_path, file_path)
RestoreCopy(fsys, b, f) == [fsys EXCEPT ![f] = b[f]]

\* ------------------------------------------------------------- Init
RECURSIVE SumOver(_, _)
SumOver(S, fsys) ==
  IF S = {} THEN 0
  ELSE LET f == CHOOSE x \in S : TRUE
       IN Cardinality(fsys[f].sigs) + SumOver(S \ {f}, fsys)

\* the number of (file, pattern) matches in a project
Targets(fsys) == SumOver(Files, fsys)

NoApp == [fn |-> "none", arg |-> <<>>, out |-> <<>>, done |-> FALSE]

PipelineInit ==
  /\ dry_run \in BOOLEAN
  /\ hasPom \in BOOLEAN
  /\ fs \in [Files -> {Original(s) : s \in SUBSET PatternNames}]
  /\ \A f \in JavaFiles : fs[f].sigs \subseteq {"security", "hibernate"}
  /\ \A f \in CfgFiles : fs[f].sigs \subseteq {"config"}
  /\ Targets(fs) <= MaxTargets
  /\ bak = [f \in Files |-> NoFile]
  /\ pc = "analyze"
  /\ stages = <<>>
  /\ analysis = NoAnalysis
  /\ errors = <<>>
  /\ ow_ok = FALSE /\ ow_changes = 0
  /\ recipe = [invoked |-> FALSE, goal |-> "none"]
  /\ pattern_results = NoPatterns
  /\ pattern = 0
  /\ files = <<>> /\ idx = 0
  /\ res = EmptyResult
  /\ ret = NoReturn
  /\ lastCall = NoHandlerCall
  /\ wmf = NoCall
  /\ handled = [p \in PatternNames |-> [f \in Files |-> 0]]
  /\ written = [p \in PatternNames |-> [f \in Files |-> 0]]
  /\ order = <<>>
  /\ faulted = [p \in PatternNames |-> FALSE]
  /\ snap = [p \in PatternNames |-> EmptyResult]
  /\ comp = "notrun"
  /\ comp_ok = FALSE /\ comp_errors = 0
  /\ status = "none"
  /\ result = NoResult
  /\ report = [status |-> "none", errors |-> 0]
  /\ exit_code = -1

Init == PipelineInit /\ app = NoApp

\* ------------------------------------------------- pipeline stages 1, 2
analyze_project ==
  [total_java_files |-> NumJava,
   estimated_complexity |->
     IF NumJava < 50 THEN "low" ELSE IF NumJava <= 200 THEN "medium" ELSE "high"]

\* Stage 1
Analyze ==
  /\ pc = "analyze"
  /\ stages' = Append(stages, "Analyze")
  /\ analysis' = analyze_project
  /\ pc' = "recipe"
  /\ UNCHANGED <<envVars, fsVars, errors, recipeVars, orchVars, compVars, endVars>>

OpenRewriteFailed == [prefix |-> "", entry |-> Entry("OpenRewrite execution failed", 0, "")]

\* a pipeline that goes on to the pattern stage whatever the recipe did
AfterRecipe_continue(ok) == "patterns"

\* a pipeline that starts over when the recipe failed
AfterRecipe_retry(ok) == IF ok THEN "patterns" ELSE "analyze"

\* where the pipeline goes after stage 2: "if not ow_ok: ... return"
AfterRecipe(ok) == IF ok THEN "patterns" ELSE "report"

\* Stage 2: run_openrewrite, and the abort when it fails
RunExternalRecipe ==
  /\ pc = "recipe"
  /\ stages' = Append(stages, "RunExternalRecipe")
  /\ \E proc \in ProcOutcomes, n \in 0..MaxChanges :
       LET r == run_openrewrite(hasPom, proc, n) IN
       /\ ow_ok' = r.success
       /\ ow_changes' = r.changes
       /\ recipe' = [invoked |-> r.invoked,
                     goal |-> IF ~r.invoked THEN "none"
                              ELSE build_maven_command(dry_run)]
       /\ IF ~r.success
          THEN /\ errors' = Append(errors, OpenRewriteFailed)
               /\ result' = make_result(analysis, FALSE, 0, EmptyPatterns,
                                        FALSE, 0, errors')
               /\ pc' = AfterRecipe(FALSE)
          ELSE /\ pc' = AfterRecipe(TRUE)
               /\ UNCHANGED <<errors, result>>
  /\ UNCHANGED <<envVars, fsVars, analysis, orchVars, compVars, report, exit_code>>

\* ------------------------------------------------------- orchestrator
\* PatternOrchestrator.run up to the first _run_* call
OrchestratorRun ==
  /\ pc = "patterns"
  /\ stages' = Append(stages, "RunPatternHandlers")
  /\ IF dry_run
     THEN /\ pattern_results' = EmptyPatterns
          /\ pc' = "collect"
          /\ UNCHANGED pattern
     ELSE /\ pattern_results' = NoPatterns
          /\ pattern' = 1
          /\ pc' = "detect"
  /\ UNCHANGED <<envVars, fsVars, analysis, errors, recipeVars, files, idx, res,
                 ret, lastCall, wmf, handled, written, order, faulted, snap,
                 compVars, endVars>>

\* a loop that leaves out its last target
LoopNext_skiplast(i, fl) == IF i < Len(fl) THEN "migrate" ELSE "endpattern"

\* a loop that ends after its first target
LoopNext_break(i, fl) == IF i = 1 /\ i <= Len(fl) THEN "migrate" ELSE "endpattern"

\* a loop that does not end after its last target
LoopNext_stall(i, fl) == IF i <= Len(fl) THEN "migrate" ELSE "stalled"

LoopNext(i, fl) == IF i <= Len(fl) THEN "migrate" ELSE "endpattern"

\* _run_*: result initialised, detection, found set; or a fault caught
RunDetect ==
  /\ pc = "detect"
  /\ LET p == PatternOrder[pattern] IN
     /\ order' = Append(order, <<p, "start">>)
     /\ \E fault \in BOOLEAN, unreadable \in SUBSET Candidates(p) :
          IF fault
          THEN /\ res' = BatchFault(EmptyResult, p)
               /\ faulted' = [faulted EXCEPT ![p] = TRUE]
               /\ snap' = [snap EXCEPT ![p] = EmptyResult]
               /\ files' = <<>> /\ idx' = 0
               /\ pc' = "endpattern"
          ELSE /\ files' = Detect(p, fs, unreadable)
               /\ res' = [EmptyResult EXCEPT !.found = Len(files')]
               /\ idx' = 1
               /\ pc' = LoopNext(1, files')
               /\ UNCHANGED <<faulted, snap>>
  /\ UNCHANGED <<envVars, fsVars, stages, analysis, errors, recipeVars,
                 pattern_results, pattern, ret, lastCall, wmf, handled, written,
                 compVars, endVars>>

\* one loop iteration up to the write-back: the handler call, tokens added,
\* the error entry when the handler failed, or the fault caught
Migrate ==
  /\ pc = "migrate"
  /\ LET p == PatternOrder[pattern]
         f == files[idx]
     IN
     /\ handled' = [handled EXCEPT ![p][f] = @ + 1]
     /\ \E e \in Envs :
          LET r == Handler(p, fs[f], e) IN
          /\ lastCall' = [pattern |-> p, rd |-> e.rd, called |-> ServiceCalled(e),
                          svcError |-> ServiceError(e), usage |-> Usage(e),
                          raised |-> r.raised, ok |-> r.ok, tokens |-> r.tokens,
                          before |-> res.tokens]
          /\ IF r.raised
             THEN /\ res' = BatchFault(res, p)
                  /\ faulted' = [faulted EXCEPT ![p] = TRUE]
                  /\ snap' = [snap EXCEPT ![p] = res]
                  /\ pc' = "endpattern"
                  /\ UNCHANGED <<ret, wmf, idx>>
             ELSE /\ UNCHANGED <<faulted, snap>>
                  /\ IF r.ok
                     THEN /\ ret' = r
                          /\ res' = [res EXCEPT !.tokens = @ + r.tokens]
                          /\ UNCHANGED idx
                          /\ IF p = "config"
                             THEN pc' = "cfgwrite" /\ UNCHANGED wmf
                             ELSE /\ pc' = "backup"
                                  /\ wmf' = [NoCall EXCEPT !.file = f,
                                               !.pre = fs[f], !.new = r.content]
                     ELSE /\ res' = [res EXCEPT !.tokens = @ + r.tokens,
                                       !.errors = Append(@, Entry("Migration failed", f, r.msg))]
                          /\ idx' = idx + 1
                          /\ pc' = LoopNext(idx + 1, files)
                          /\ UNCHANGED <<ret, wmf>>
  /\ UNCHANGED <<envVars, fsVars, stages, analysis, errors, recipeVars,
                 pattern_results, pattern, files, written, order, compVars,
                 endVars>>


\* write_migrated_file: the backup copy; on failure return False
Backup ==
  /\ pc = "backup"
  /\ LET f == wmf.file IN
     \E ok \in BOOLEAN, leftover \in {bak[f], Partial} :
       /\ bak' = IF ok THEN BackupCopy(fs, bak, f)
                 ELSE [bak EXCEPT ![f] = leftover]
       /\ wmf' = [wmf EXCEPT !.backupOk = ok, !.ret = FALSE]
       /\ written' = [written EXCEPT ![PatternOrder[pattern]][f] = @ + 1]
       /\ pc' = NextAfterBackup(ok)
  /\ UNCHANGED <<envVars, fs, stages, analysis, errors, recipeVars,
                 pattern_results, pattern, files, idx, res, ret, lastCall,
                 handled, order, faulted, snap, compVars, endVars>>

\* write_migrated_file: write_text; on success return True.  A failed
\* write leaves the target as it was or truncated / partially written.
Write ==
  /\ pc = "write"
  /\ LET f == wmf.file IN
     \E ok \in BOOLEAN, leftover \in {fs[f], Partial} :
       IF ok
       THEN /\ fs' = [fs EXCEPT ![f] = wmf.new]
            /\ wmf' = [wmf EXCEPT !.writeAttempted = TRUE, !.writeOk = TRUE,
                                  !.ret = WmfReturn(TRUE, FALSE)]
            /\ pc' = "wmf_ret"
       ELSE /\ fs' = [fs EXCEPT ![f] = leftover]
            /\ wmf' = [wmf EXCEPT !.writeAttempted = TRUE]
            /\ pc' = "restore"
  /\ UNCHANGED <<envVars, bak, stages, analysis, errors, recipeVars,
                 pattern_results, pattern, files, idx, res, ret, lastCall,
                 handled, written, order, faulted, snap, compVars, endVars>>

\* write_migrated_file: the restore after a failed write; return False
Restore ==
  /\ pc = "restore"
  /\ LET f == wmf.file IN
     \E ok \in BOOLEAN, leftover \in {fs[f], Partial} :
       /\ fs' = IF ok THEN RestoreCopy(fs, bak, f)
                ELSE [fs EXCEPT ![f] = leftover]
       /\ wmf' = [wmf EXCEPT !.restoreAttempted = TRUE, !.restoreOk = ok,
                             !.critical = ~ok, !.ret = WmfReturn(FALSE, ok)]
       /\ pc' = "wmf_ret"
  /\ UNCHANGED <<envVars, bak, stages, analysis, errors, recipeVars,
                 pattern_results, pattern, files, idx, res, ret, lastCall,
                 handled, written, order, faulted, snap, compVars, endVars>>

\* _run_security / _run_hibernate: the branch on write_migrated_file's value
AfterWrite ==
  /\ pc = "wmf_ret"
  /\ res' = IF wmf.ret
            THEN [res EXCEPT !.migrated = @ + 1]
            ELSE [res EXCEPT !.errors = Append(@, Entry("Failed to write", wmf.file, ""))]
  /\ idx' = idx + 1
  /\ pc' = LoopNext(idx + 1, files)
  /\ ret' = NoReturn /\ lastCall' = NoHandlerCall /\ wmf' = NoCall
  /\ UNCHANGED <<envVars, fsVars, stages, analysis, errors, recipeVars,
                 pattern_results, pattern, files, handled, written, order,
                 faulted, snap, compVars, endVars>>

\* _run_config: f.write_text and its except branch
ConfigWrite ==
  /\ pc = "cfgwrite"
  /\ LET f == files[idx] IN
     \E ok \in BOOLEAN, leftover \in {fs[f], Partial} :
       IF ok
       THEN /\ fs' = [fs EXCEPT ![f] = ret.content]
            /\ res' = [res EXCEPT !.migrated = @ + 1]
       ELSE /\ fs' = [fs EXCEPT ![f] = leftover]
            /\ res' = [res EXCEPT !.errors = Append(@, Entry("Failed to write", f, "oserror"))]
  /\ written' = [written EXCEPT !["config"][files[idx]] = @ + 1]
  /\ idx' = idx + 1
  /\ pc' = LoopNext(idx + 1, files)
  /\ ret' = NoReturn /\ lastCall' = NoHandlerCall
  /\ UNCHANGED <<envVars, bak, stages, analysis, errors, recipeVars,
                 pattern_results, pattern, files, wmf, handled, order, faulted,
                 snap, compVars, endVars>>

\* _run_* returns; run stores the result and goes to the next pattern
EndPattern ==
  /\ pc = "endpattern"
  /\ LET p == PatternOrder[pattern] IN
     /\ pattern_results' = (p :> res) @@ pattern_results
     /\ order' = Append(order, <<p, "end">>)
  /\ IF pattern < Len(PatternOrder)
     THEN pattern' = pattern + 1 /\ pc' = "detect"
     ELSE pc' = "totals" /\ UNCHANGED pattern
  /\ lastCall' = NoHandlerCall
  /\ UNCHANGED <<envVars, fsVars, stages, analysis, errors, recipeVars, files,
                 idx, res, ret, wmf, handled, written, faulted, snap,
                 compVars, endVars>>

\* run: the totals
Totals ==
  /\ pc = "totals"
  /\ pattern_results' = ("totals" :> OrchTotals(pattern_results)) @@ pattern_results
  /\ pc' = "collect"
  /\ UNCHANGED <<envVars, fsVars, stages, analysis, errors, recipeVars, pattern,
                 files, idx, res, ret, lastCall, wmf, handled, written, order,
                 faulted, snap, compVars, endVars>>

\* ------------------------------------------------ pipeline stages 3, 4
\* a collection step that drops the entries
Prefixed_dropped(p, errs) == <<>>

Prefixed(p, errs) == [i \in 1..Len(errs) |-> [prefix |-> p, entry |-> errs[i]]]

\* the pattern errors collected into the pipeline errors
CollectErrors ==
  /\ pc = "collect"
  /\ errors' = errors \o Prefixed("security", pattern_results["security"].errors)
                      \o Prefixed("config", pattern_results["config"].errors)
                      \o Prefixed("hibernate", pattern_results["hibernate"].errors)
  /\ pc' = "compile"
  /\ UNCHANGED <<envVars, fsVars, stages, analysis, recipeVars, orchVars,
                 compVars, endVars>>

CompilationFailed(n) == [prefix |-> "", entry |-> Entry("Compilation failed", n, "")]

\* Stage 4, the status line and the returned result
ValidateCompilation ==
  /\ pc = "compile"
  /\ stages' = Append(stages, "ValidateCompilation")
  /\ IF dry_run
     THEN /\ comp' = "skipped"
          /\ comp_ok' = TRUE /\ comp_errors' = 0
          /\ UNCHANGED errors
     ELSE \E proc \in ProcOutcomes, n \in 0..MaxCompErrors :
            LET r == validate_compilation(hasPom, proc) IN
            /\ comp' = IF ~r.invoked THEN "notinvoked"
                       ELSE IF r.success THEN "ok" ELSE "failed"
            /\ comp_ok' = r.success
            /\ comp_errors' = IF ~r.success /\ proc = "nonzero" THEN n ELSE 0
            /\ errors' = IF r.success THEN errors
                         ELSE Append(errors, CompilationFailed(comp_errors'))
  /\ status' = IF ow_ok /\ comp_ok' THEN "SUCCEEDED" ELSE "FAILED"
  /\ result' = make_result(analysis, ow_ok, ow_changes, pattern_results,
                           comp_ok', comp_errors', errors')
  /\ pc' = "report"
  /\ UNCHANGED <<envVars, fsVars, analysis, recipeVars, orchVars, report, exit_code>>

generate_report(r) ==
  [status |-> IF r.success THEN "SUCCESS" ELSE "FAILED", errors |-> Len(r.errors)]

\* main: the report and the exit status
Report ==
  /\ pc = "report"
  /\ stages' = Append(stages, "Report")
  /\ report' = generate_report(result)
  /\ exit_code' = IF result.success THEN 0 ELSE 1
  /\ pc' = "done"
  /\ UNCHANGED <<envVars, fsVars, analysis, errors, recipeVars, orchVars,
                 compVars, result>>

Next ==
  \/ Analyze
  \/ RunExternalRecipe
  \/ OrchestratorRun
  \/ RunDetect
  \/ Migrate
  \/ Backup
  \/ Write
  \/ Restore
  \/ AfterWrite
  \/ ConfigWrite
  \/ EndPattern
  \/ Totals
  \/ CollectErrors
  \/ ValidateCompilation
  \/ Report

Spec == Init /\ [][Next]_vars

\* One sequential process: every step returns or raises (both subprocess
\* calls carry a timeout, the loops run over finite lists), so a step that
\* can be taken is taken.
LiveSpec == Init /\ [][Next]_vars /\ WF_vars(Next)

\* ------------------------------------- extraction of the migrated text
\* A response is a sequence of non-blank lines:
\*   "prose"   a line of explanation      "code"   a line of migrated text
\*   "flabel"  a fence line labelled with the target format (```java)
\*   "fother"  a fence line with another label
\*   "fence"   a bare fence line (```)
LineKinds == {"prose", "code", "flabel", "fother", "fence"}
Responses == UNION {[1..k -> LineKinds] : k \in 0..MaxLines}

\* the line starts with three backticks
StartsFence(l) == l \in {"flabel", "fother", "fence"}

MinOf(S) == CHOOSE x \in S : \A y \in S : x <= y

\* positions after i where a ``` occurs
FencesAfter(resp, i) == {j \in (i + 1)..Len(resp) : StartsFence(resp[j])}

\* re.search(<opening>\s*\n(.*?)```): the leftmost line of the given kind
\* that some ``` follows, and group(1), the lines up to the first such ```
Openings(resp, kind) ==
  {i \in 1..Len(resp) : resp[i] = kind /\ FencesAfter(resp, i) # {}}
Group1(resp, i) == SubSeq(resp, i + 1, MinOf(FencesAfter(resp, i)) - 1)

\* _extract_code_from_response
extract_code_from_response(resp) ==
  IF Openings(resp, "flabel") # {}
  THEN Group1(resp, MinOf(Openings(resp, "flabel")))
  ELSE IF Openings(resp, "fence") # {}
  THEN Group1(resp, MinOf(Openings(resp, "fence")))
  ELSE resp

\* migrate_config_file: "Strip markdown fences if present"
strip_config_fences(resp) ==
  IF Len(resp) > 0 /\ StartsFence(resp[1])
  THEN LET lines == SubSeq(resp, 2, Len(resp))
       IN IF Len(lines) > 0 /\ lines[Len(lines)] = "fence"
          THEN SubSeq(lines, 1, Len(lines) - 1)
          ELSE lines
  ELSE resp

pipeVars == <<dry_run, hasPom, fsVars, pc, stages, analysis, errors,
              recipeVars, orchVars, compVars, endVars>>

\* one handler's extraction applied to one response; the pipeline is idle
ExtractInit ==
  /\ PipelineInit /\ dry_run /\ ~hasPom /\ Targets(fs) = 0
  /\ app \in [fn : PatternNames, arg : Responses, out : {<<>>}, done : {FALSE}]

\* migrate_security_config / migrate_hibernate_file: the extraction
ExtractCode ==
  /\ app.fn \in {"security", "hibernate"} /\ ~app.done
  /\ app' = [app EXCEPT !.out = extract_code_from_response(app.arg),
                        !.done = TRUE]
  /\ UNCHANGED pipeVars

\* migrate_config_file: the extraction
ExtractConfig ==
  /\ app.fn = "config" /\ ~app.done
  /\ app' = [app EXCEPT !.out = strip_config_fences(app.arg), !.done = TRUE]
  /\ UNCHANGED pipeVars

ExtractNext == ExtractCode \/ ExtractConfig

ExtractSpec == ExtractInit /\ [][ExtractNext]_vars

\* ------------------------------------------- the recipe runner's count
\* A line of the subprocess output is one of
\*   applied p   "Changes have been made to <p> by:"
\*   planned p   "These recipes would make changes to <p>:"
\*   made n      "Made <n> changes"
\*   other       anything else
Paths == 1..MaxPaths
OutLines == [kind : {"applied", "planned"}, arg : Paths]
            \cup [kind : {"made"}, arg : 0..MaxChanges]
            \cup [kind : {"other"}, arg : {0}]
Outputs == UNION {[1..k -> OutLines] : k \in 0..MaxOutLines}

\* len(re.findall(...)) for one of the two line shapes
CountKind(out, kind) == Cardinality({i \in 1..Len(out) : out[i].kind = kind})

\* a count of the distinct paths named
parse_change_count_unique(out) ==
  LET named == {out[i].arg : i \in {j \in 1..Len(out) :
                                      out[j].kind \in {"applied", "planned"}}}
      made == {i \in 1..Len(out) : out[i].kind = "made"}
  IN IF named # {} THEN Cardinality(named)
     ELSE IF made # {} THEN out[MinOf(made)].arg
     ELSE 0

\* _parse_change_count
parse_change_count(out) ==
  LET total == CountKind(out, "applied") + CountKind(out, "planned")
      made == {i \in 1..Len(out) : out[i].kind = "made"}
  IN IF total > 0 THEN total
     ELSE IF made # {} THEN out[MinOf(made)].arg
     ELSE 0

\* the recipe runner applied to one subprocess outcome and output, or the
\* parser applied to one output; the pipeline is idle
ParseInit ==
  /\ PipelineInit /\ dry_run /\ ~hasPom /\ Targets(fs) = 0
  /\ app \in [fn : {"parse", "run"}, arg : Outputs, proc : ProcOutcomes,
               out : {0}, done : {FALSE}]

ParseChangeCount ==
  /\ app.fn = "parse" /\ ~app.done
  /\ app' = [app EXCEPT !.out = parse_change_count(app.arg), !.done = TRUE]
  /\ UNCHANGED pipeVars

\* run_openrewrite on a project with a pom.xml: the returned change count
RunOpenRewrite ==
  /\ app.fn = "run" /\ ~app.done
  /\ app' = [app EXCEPT
               !.out = run_openrewrite(TRUE, app.proc,
                                       parse_change_count(app.arg)).changes,
               !.done = TRUE]
  /\ UNCHANGED pipeVars

ParseNext == ParseChangeCount \/ RunOpenRewrite

ParseSpec == ParseInit /\ [][ParseNext]_vars

\* ------------------------------------------- the configuration validator
\* A configuration text is a set of lines; a line is the sequence of the
\* dot-separated segments of its key, followed by its value where the
\* validator looks at the value.
CfgLines ==
  { <<"spring", "redis", "host">>,
    <<"spring", "data", "redis", "host">>,
    <<"spring", "elasticsearch", "rest", "uris">>,
    <<"spring", "elasticsearch", "uris">>,
    <<"server", "max-http-header-size">>,
    <<"server", "max-http-request-header-size">>,
    <<"spring", "jpa", "hibernate", "use-new-id-generator-mappings">>,
    <<"spring", "jpa", "database-platform", "MySQL5Dialect">>,
    <<"spring", "jpa", "database-platform", "MySQLDialect">>,
    <<"app", "name">> }

CfgTexts == {t \in SUBSET CfgLines : Cardinality(t) <= MaxCfgLines}

\* "k in line": the segments of k stand in the line one after the other;
\* a key written with a trailing dot needs a segment after them
InLine(k, line) ==
  \E p \in 1..Len(line) :
    /\ p + Len(k.segs) - 1 <= Len(line)
    /\ \A j \in 1..Len(k.segs) : line[p + j - 1] = k.segs[j]
    /\ k.dot => p + Len(k.segs) <= Len(line)

\* "k in text"
InText(k, text) == \E line \in text : InLine(k, line)

Key(segs, dot) == [segs |-> segs, dot |-> dot]

deprecated_checks ==
  << [old |-> Key(<<"spring", "redis">>, TRUE),
      new |-> Key(<<"spring", "data", "redis">>, TRUE),
      msg |-> "spring.redis not renamed"],
     [old |-> Key(<<"spring", "elasticsearch", "rest">>, TRUE),
      new |-> Key(<<"spring", "elasticsearch">>, TRUE),
      msg |-> "elasticsearch.rest not renamed"],
     [old |-> Key(<<"server", "max-http-header-size">>, FALSE),
      new |-> Key(<<"server", "max-http-request-header-size">>, FALSE),
      msg |-> "max-http-header-size not renamed"] >>

remove_checks ==
  << [key |-> Key(<<"use-new-id-generator-mappings">>, FALSE),
      msg |-> "'use-new-id-generator-mappings' should be removed"] >>

deprecated_dialects ==
  << [old |-> Key(<<"MySQL5Dialect">>, FALSE),
      msg |-> "Dialect 'MySQL5Dialect' not updated to 'MySQLDialect'"] >>

\* the segments in whose letters "app" stands
AppBearing == {"app", "use-new-id-generator-mappings"}

HasApp(text) == \E line \in text : \E j \in 1..Len(line) : line[j] \in AppBearing

\* the messages of the checks that hit, in the order of the checks
Flagged(checks, hit) ==
  LET at == SelectSeq([i \in 1..Len(checks) |-> i], LAMBDA i : hit[i])
  IN [j \in 1..Len(at) |-> checks[at[j]].msg]

\* validate_config_migration; the YAML branch applies the same test
validate_config_migration(original, migrated, is_yaml) ==
  LET Renamed(c) ==
        /\ InText(c.old, original)
        /\ InText(c.old, migrated) /\ ~InText(c.new, migrated)
      Removed(c) == InText(c.key, original) /\ InText(c.key, migrated)
      Dialect(c) == InText(c.old, original) /\ InText(c.old, migrated)
      custom ==
        IF InText(Key(<<"app">>, TRUE), original) /\ ~HasApp(migrated)
        THEN <<"Custom app properties lost">> ELSE <<>>
      issues ==
        Flagged(deprecated_checks,
                [i \in 1..Len(deprecated_checks) |-> Renamed(deprecated_checks[i])])
        \o Flagged(remove_checks,
                   [i \in 1..Len(remove_checks) |-> Removed(remove_checks[i])])
        \o Flagged(deprecated_dialects,
                   [i \in 1..Len(deprecated_dialects) |-> Dialect(deprecated_dialects[i])])
                \o custom
  IN [ok |-> issues = <<>>, issues |-> issues]

NoVerdict == [ok |-> FALSE, issues |-> <<>>]

ValidateInit ==
  /\ PipelineInit /\ dry_run /\ ~hasPom /\ Targets(fs) = 0
  /\ app \in [fn : {"validate"}, original : CfgTexts, migrated : CfgTexts,
              is_yaml : BOOLEAN, out : {NoVerdict}, done : {FALSE}]

ValidateConfig ==
  /\ app.fn = "validate" /\ ~app.done
  /\ app' = [app EXCEPT
               !.out = validate_config_migration(app.original, app.migrated,
                                                 app.is_yaml),
               !.done = TRUE]
  /\ UNCHANGED pipeVars

ValidateNext == ValidateConfig

ValidateSpec == ValidateInit /\ [][ValidateNext]_vars

\* ------------------------------------------- the hibernate signature
\* A Java source is a sequence of places. A place is code, a comment or a
\* string literal, and holds an annotation with an argument list, the bare
\* marker @Type, the name of a deprecated dialect, or nothing of interest.
\* Only a place of code puts its annotation in the syntax tree.
Annotations == {"@Type(..)", "@TypeDef(..)", "@TypeDefs(..)"}
Places == [where : {"code", "comment", "string"},
           what : Annotations \cup {"@Type", "dialect", "plain"}]
Sources == UNION {[1..k -> Places] : k \in 0..MaxItems}

\* the captures of one annotation query on the tree of src
Captures(src, ann) ==
  {i \in 1..Len(src) : src[i].where = "code" /\ src[i].what = ann}

\* any(dialect in source_text for dialect in _DEPRECATED_DIALECTS)
DialectInText(src) == \E i \in 1..Len(src) : src[i].what = "dialect"

\* the body of find_hibernate_patterns' loop: is this file appended
HasHibernatePattern(src, readable) ==
  IF ~readable THEN FALSE
  ELSE IF Captures(src, "@Type(..)") # {} THEN TRUE
  ELSE IF Captures(src, "@TypeDef(..)") # {} THEN TRUE
  ELSE IF Captures(src, "@TypeDefs(..)") # {} THEN TRUE
  ELSE DialectInText(src)

DetectInit ==
  /\ PipelineInit /\ dry_run /\ ~hasPom /\ Targets(fs) = 0
  /\ app \in [fn : {"detect"}, arg : Sources, readable : BOOLEAN,
              out : {FALSE}, done : {FALSE}]

FindHibernatePatterns ==
  /\ app.fn = "detect" /\ ~app.done
  /\ app' = [app EXCEPT !.out = HasHibernatePattern(app.arg, app.readable),
                        !.done = TRUE]
  /\ UNCHANGED pipeVars

DetectNext == FindHibernatePatterns

DetectSpec == DetectInit /\ [][DetectNext]_vars

\* ================================================================ claims
Returned == pc \in {"report", "done"}

\* C1: the result's success flag is true exactly when the recipe runner
\* succeeded, compilation succeeded (or was skipped in dry-run) and the
\* pipeline error list is empty.
C1_SuccessIff ==
  Returned =>
    (result.success <=>
       /\ ow_ok
       /\ (comp = "ok" \/ (dry_run /\ comp = "skipped"))
       /\ errors = <<>>)

C1_Witness ==
  /\ pc = "done" /\ result.success /\ ~dry_run
  /\ result.pattern_results["totals"].migrated >= 1

TotalsAreSums(pr) ==
  /\ pr["totals"].found =
       pr["security"].found + pr["config"].found + pr["hibernate"].found
  /\ pr["totals"].migrated =
       pr["security"].migrated + pr["config"].migrated + pr["hibernate"].migrated
  /\ pr["totals"].tokens =
       pr["security"].tokens + pr["config"].tokens + pr["hibernate"].tokens

\* C2: in every result the orchestrator or the pipeline returns, each of
\* totals.found, totals.migrated, totals.tokens is the sum of the three
\* per-pattern values.
C2_TotalsEqualSums ==
  /\ ("totals" \in DOMAIN pattern_results => TotalsAreSums(pattern_results))
  /\ (Returned =>
        /\ TotalsAreSums(result.pattern_results)
        /\ result.claude_configs_found = result.pattern_results["totals"].found
        /\ result.claude_configs_migrated = result.pattern_results["totals"].migrated
        /\ result.claude_total_tokens = result.pattern_results["totals"].tokens)

C2_Witness ==
  /\ pc = "done" /\ ~dry_run
  /\ result.pattern_results["hibernate"].found >= 1
  /\ result.pattern_results["totals"].found = 2
  /\ result.pattern_results["totals"].migrated = 1
  /\ result.pattern_results["totals"].tokens > 0

\* C3: for every pattern kind, a write of migrated content changes a
\* target only when its backup already holds the content being replaced.
C3_BackupBeforeOverwrite ==
  [][\A f \in Files :
       (pc \in {"write", "cfgwrite"} /\ fs'[f] # fs[f]) => bak[f] = fs[f]]_vars

\* C4: when write_migrated_file returns, the target holds its pre-call
\* content, or the backup holds the pre-call content and the target the new
\* content, unless the restore failed and was logged as critical.
C4_WriteBackStates ==
  pc = "wmf_ret" =>
    \/ fs[wmf.file] = wmf.pre
    \/ (bak[wmf.file] = wmf.pre /\ fs[wmf.file] = wmf.new)
    \/ (wmf.restoreAttempted /\ ~wmf.restoreOk /\ wmf.critical)

C4_Witness ==
  /\ pc = "wmf_ret"
  /\ wmf.writeAttempted /\ ~wmf.writeOk
  /\ wmf.restoreAttempted /\ wmf.restoreOk
  /\ fs[wmf.file] = wmf.pre /\ bak[wmf.file] = wmf.pre

\* C5: when the backup copy fails, write_migrated_file returns False
\* without attempting the write or a restore, and the target is unchanged.
C5_BackupFailureFailsClosed ==
  (pc = "wmf_ret" /\ ~wmf.backupOk) =>
    /\ ~wmf.ret
    /\ ~wmf.writeAttempted
    /\ ~wmf.restoreAttempted
    /\ fs[wmf.file] = wmf.pre

C5_Witness ==
  /\ pc = "wmf_ret" /\ ~wmf.backupOk /\ ~wmf.ret
  /\ fs[wmf.file] = wmf.pre

\* C6: a failed write whose restore also failed is raised, or returns a
\* value different from the one a restored failed write returns.
C6_RestoreFailureEscalated ==
  (pc = "wmf_ret" /\ wmf.restoreAttempted /\ ~wmf.restoreOk) =>
    (wmf.raised \/ wmf.ret # WmfReturn(FALSE, TRUE))

HandlerCalls(f) ==
  handled["security"][f] + handled["config"][f] + handled["hibernate"][f]
WriteBacks(f) ==
  written["security"][f] + written["config"][f] + written["hibernate"][f]

\* C7 (as stated): within one run each file is passed to a rewrite handler
\* and written back at most once, counting across the three patterns.
C7_OncePerFile ==
  \A f \in Files : HandlerCalls(f) <= 1 /\ WriteBacks(f) <= 1

\* C7 (amended): within one run each file is passed to a rewrite handler
\* and written back at most once per pattern.
C7_OncePerFileAndPattern ==
  \A p \in PatternNames : \A f \in Files :
    handled[p][f] <= 1 /\ written[p][f] <= 1

C7_Witness ==
  \E f \in JavaFiles :
    /\ handled["security"][f] = 1 /\ handled["hibernate"][f] = 1
    /\ written["security"][f] = 1 /\ written["hibernate"][f] = 1
    /\ bak[f].tag = "security" /\ fs[f].tag = "hibernate"

PatternErrors(errs) == {i \in 1..Len(errs) : errs[i].kind = "pattern error"}

\* C8 (as stated): a pattern whose batch faulted has found = 0,
\* migrated = 0, tokens = 0 and exactly one error entry.
C8_FaultedPatternAllZero ==
  \A p \in PatternNames :
    (p \in DOMAIN pattern_results /\ faulted[p]) =>
      /\ pattern_results[p].found = 0
      /\ pattern_results[p].migrated = 0
      /\ pattern_results[p].tokens = 0
      /\ Len(pattern_results[p].errors) = 1

\* C8 (amended): a pattern whose batch faulted keeps the found, migrated
\* and tokens values and the error entries accumulated before the fault and
\* gets exactly one pattern-error entry, appended last.
C8_FaultKeepsCounts ==
  \A p \in PatternNames :
    (p \in DOMAIN pattern_results /\ faulted[p]) =>
      LET r == pattern_results[p]
          n == Len(r.errors)
      IN /\ r.found = snap[p].found
         /\ r.migrated = snap[p].migrated
         /\ r.tokens = snap[p].tokens
         /\ n = Len(snap[p].errors) + 1
         /\ SubSeq(r.errors, 1, n - 1) = snap[p].errors
         /\ PatternErrors(r.errors) = {n}
         /\ r.errors[n].msg = p

C8_Witness ==
  \E p \in PatternNames :
    /\ p \in DOMAIN pattern_results /\ faulted[p]
    /\ pattern_results[p].found = 2
    /\ pattern_results[p].migrated = 1
    /\ pattern_results[p].tokens > 0

ExpectedOrder == <<"security", "config", "hibernate">>
FullOrder == <<<<"security", "start">>, <<"security", "end">>,
               <<"config", "start">>, <<"config", "end">>,
               <<"hibernate", "start">>, <<"hibernate", "end">>>>
IsPrefix(s, t) == Len(s) <= Len(t) /\ s = SubSeq(t, 1, Len(s))
InPattern == {"migrate", "backup", "write", "restore", "wmf_ret", "cfgwrite",
              "endpattern"}

\* C9: in a non-dry-run orchestrator run the patterns run in the order
\* security, config, hibernate, each finished before the next one's
\* detection starts, and all three run whatever failed in an earlier one.
C9_AllPatternsInOrder ==
  /\ IsPrefix(order, FullOrder)
  /\ (pc = "detect" => Len(order) = 2 * (pattern - 1))
  /\ (pc \in InPattern => Len(order) = 2 * pattern - 1)
  /\ \A j \in 1..3 : \A f \in Files :
       (handled[ExpectedOrder[j]][f] > 0 \/ written[ExpectedOrder[j]][f] > 0)
         => (j <= pattern /\ Len(order) >= 2 * j - 1)
  /\ ((~dry_run /\ ow_ok /\ pc \in {"totals", "collect", "compile", "report", "done"})
        => order = FullOrder)

C9_Witness ==
  /\ pc = "done" /\ order = FullOrder
  /\ faulted["security"]
  /\ \E f \in Files : handled["config"][f] = 1 /\ written["config"][f] = 1

\* C10: in each rewrite handler an error raised by the service call becomes
\* a returned failure with cost 0 and does not escape the handler.
C10_ServiceErrorContained ==
  lastCall.svcError =>
    (~lastCall.raised /\ ~lastCall.ok /\ lastCall.tokens = 0)

\* C11: a handler's returned failure costs 0 when the source could not be
\* read (and then the service was not called) or when the service call
\* raised, and costs the full input + output usage when the response failed
\* the syntax check; the orchestrator adds every returned cost to the
\* pattern's tokens.
C11_FailureCosts ==
  (lastCall.pattern # "none" /\ ~lastCall.raised) =>
    /\ (lastCall.rd = "oserror" =>
          ~lastCall.ok /\ lastCall.tokens = 0 /\ ~lastCall.called)
    /\ (lastCall.svcError => ~lastCall.ok /\ lastCall.tokens = 0)
    /\ ((lastCall.rd = "ok" /\ ~lastCall.svcError /\ ~lastCall.ok) =>
          lastCall.called /\ lastCall.usage >= 2
          /\ lastCall.tokens = lastCall.usage)
    /\ res.tokens = lastCall.before + lastCall.tokens

C11_Witness ==
  /\ lastCall.pattern = "hibernate" /\ ~lastCall.raised /\ ~lastCall.ok
  /\ lastCall.rd = "ok" /\ ~lastCall.svcError
  /\ lastCall.tokens >= 2 /\ lastCall.before >= 2
  /\ res.tokens = lastCall.before + lastCall.tokens
  /\ Len(res.errors) >= 1

RecipeFailed == pc \notin {"analyze", "recipe"} /\ ~ow_ok

Untouched ==
  /\ order = <<>>
  /\ \A p \in PatternNames : \A f \in Files :
       handled[p][f] = 0 /\ written[p][f] = 0
  /\ \A f \in Files : fs[f].tag = "orig" /\ bak[f] = NoFile

AllZero(pr) ==
  /\ DOMAIN pr = PatternNames \cup {"totals"}
  /\ \A p \in PatternNames :
       pr[p] = [found |-> 0, migrated |-> 0, tokens |-> 0, errors |-> <<>>]
  /\ pr["totals"] = [found |-> 0, migrated |-> 0, tokens |-> 0]

\* C12: after a failed recipe stage no detector, handler, write-back or
\* compilation runs; the returned result has all-zero pattern entries and
\* totals with empty error lists, and the report is generated from it.
C12_RecipeAbort ==
  RecipeFailed =>
    /\ pc \in {"report", "done"}
    /\ Untouched
    /\ comp = "notrun"
    /\ stages \in {<<"Analyze", "RunExternalRecipe">>,
                   <<"Analyze", "RunExternalRecipe", "Report">>}
    /\ AllZero(result.pattern_results)
    /\ ~result.success
    /\ (pc = "done" =>
          /\ report = [status |-> "FAILED", errors |-> Len(result.errors)]
          /\ exit_code = 1)

C12_Witness ==
  /\ pc = "done" /\ hasPom /\ recipe.invoked /\ ~ow_ok /\ ~dry_run
  /\ Targets(fs) = MaxTargets
  /\ report.status = "FAILED"

\* C13: for a project without a root pom.xml the recipe runner fails
\* without starting the subprocess, the pattern stage is not executed and
\* reports all-zero counts, success is false and the pipeline error list
\* has exactly one entry.
C13_NoPom ==
  (~hasPom /\ pc \notin {"analyze", "recipe"}) =>
    /\ ~ow_ok /\ ~recipe.invoked /\ recipe.goal = "none"
    /\ pc \in {"report", "done"}
    /\ Untouched
    /\ "RunPatternHandlers" \notin {stages[i] : i \in 1..Len(stages)}
    /\ AllZero(result.pattern_results)
    /\ result.claude_configs_found = 0
    /\ result.claude_configs_migrated = 0
    /\ result.claude_total_tokens = 0
    /\ ~result.success
    /\ Len(result.errors) = 1
    /\ (pc = "done" => report.errors = 1 /\ report.status = "FAILED")

C13_Witness ==
  /\ pc = "done" /\ ~hasPom /\ ~dry_run
  /\ Targets(fs) >= 1
  /\ Len(result.errors) = 1 /\ ~result.success

StageNames == <<"Analyze", "RunExternalRecipe", "RunPatternHandlers",
                "ValidateCompilation", "Report">>
StageIndex(st) == CHOOSE i \in 1..Len(StageNames) : StageNames[i] = st

\* C14: the stages are entered in the order Analyze, RunExternalRecipe,
\* RunPatternHandlers, ValidateCompilation, Report, each at most once and
\* none after a later one has started.
C14_StagesInOrder ==
  /\ \A i \in 1..Len(stages) : \E k \in 1..Len(StageNames) : stages[i] = StageNames[k]
  /\ \A i, j \in 1..Len(stages) :
       i < j => StageIndex(stages[i]) < StageIndex(stages[j])
  /\ (pc = "done" => /\ SubSeq(stages, 1, 2) = <<"Analyze", "RunExternalRecipe">>
                     /\ stages[Len(stages)] = "Report")

C14_Witness ==
  /\ pc = "done" /\ stages = StageNames /\ ~dry_run
  /\ \E f \in Files : written["hibernate"][f] = 1

\* C15: every pipeline run eventually reaches the Report terminal state,
\* whatever the recipe runner, the handlers, the write-backs and the
\* compilation do.
C15_ReportReached == <>(pc = "done" /\ stages[Len(stages)] = "Report")

C15_Witness ==
  /\ pc = "done" /\ stages = StageNames
  /\ faulted["security"] /\ comp = "failed"
  /\ \E i \in 1..Len(result.pattern_results["hibernate"].errors) :
       result.pattern_results["hibernate"].errors[i].kind = "Failed to write"

\* C16: in dry-run mode there is no pattern detection, no service call, no
\* write-back and no compilation run; the pattern stage returns all-zero
\* counts with empty error lists, and the only external call is the recipe
\* runner in preview mode.
C16_DryRunTouchesNothing ==
  dry_run =>
    /\ Untouched
    /\ lastCall = NoHandlerCall /\ wmf = NoCall
    /\ comp \in {"notrun", "skipped"}
    /\ (recipe.invoked => recipe.goal = "dryRun")
    /\ (pc \in {"collect", "compile"} => AllZero(pattern_results))
    /\ (Returned => AllZero(result.pattern_results))

C16_Witness ==
  /\ pc = "done" /\ dry_run /\ hasPom
  /\ recipe.invoked /\ recipe.goal = "dryRun" /\ ow_ok
  /\ comp = "skipped" /\ result.success
  /\ Targets(fs) = MaxTargets
  /\ "RunPatternHandlers" \in {stages[i] : i \in 1..Len(stages)}

RECURSIVE SumCalls(_, _)
SumCalls(p, S) ==
  IF S = {} THEN 0
  ELSE LET f == CHOOSE x \in S : TRUE IN handled[p][f] + SumCalls(p, S \ {f})

\* handler calls of pattern p that did not end in a migrated target
FailedTargets(p, pr) == SumCalls(p, Files) - pr[p].migrated

\* errs[from + 1 .. from + Len(sub)] are sub's entries prefixed with p
Segment(errs, from, p, sub) ==
  /\ Len(errs) >= from + Len(sub)
  /\ \A i \in 1..Len(sub) : errs[from + i] = [prefix |-> p, entry |-> sub[i]]

\* C17: every failure of a run leaves at least one entry in the final
\* pipeline error list and makes success false; the list is the recipe
\* failure entry, or the security, config and hibernate entries in that
\* order, each prefixed with its pattern, then at most one compilation
\* failure entry.
C17_FailuresSurface ==
  Returned =>
    IF ~ow_ok
    THEN /\ Len(result.errors) = 1
         /\ result.errors[1].entry.kind = "OpenRewrite execution failed"
         /\ ~result.success
    ELSE LET pr == result.pattern_results
             n1 == Len(pr["security"].errors)
             n2 == Len(pr["config"].errors)
             n3 == Len(pr["hibernate"].errors)
             nc == IF comp = "failed" THEN 1 ELSE 0
         IN /\ Len(result.errors) = n1 + n2 + n3 + nc
            /\ Segment(result.errors, 0, "security", pr["security"].errors)
            /\ Segment(result.errors, n1, "config", pr["config"].errors)
            /\ Segment(result.errors, n1 + n2, "hibernate", pr["hibernate"].errors)
            /\ (comp = "failed" =>
                  /\ result.errors[n1 + n2 + n3 + 1].prefix = ""
                  /\ result.errors[n1 + n2 + n3 + 1].entry.kind = "Compilation failed")
            /\ (~dry_run =>
                  \A p \in PatternNames :
                    /\ Len(pr[p].errors) >= FailedTargets(p, pr)
                    /\ (faulted[p] => Len(pr[p].errors) >= 1))
            /\ (Len(result.errors) > 0 => ~result.success)

C17_Witness ==
  /\ pc = "done" /\ ow_ok /\ comp = "failed"
  /\ Len(result.pattern_results["security"].errors) >= 1
  /\ Len(result.pattern_results["config"].errors) >= 1
  /\ Len(result.pattern_results["hibernate"].errors) >= 1
  /\ Len(result.errors) >= 4
  /\ FailedTargets("security", result.pattern_results) >= 1
  /\ ~result.success

\* the step in which _run_* learns that the write-back of files[idx] failed
WriteBackFailed ==
  \/ (pc = "wmf_ret" /\ ~wmf.ret)
  \/ (pc = "cfgwrite" /\ pc' # "cfgwrite" /\ res'.migrated = res.migrated)

\* C18: when the handler succeeded and the write-back failed, that target
\* becomes one error entry, migrated is not incremented, its cost stays
\* counted, and the loop goes on to pass the next target of the pattern to
\* the handler.
C18_WriteFailureKeepsBatch ==
  [][/\ WriteBackFailed =>
          /\ ret.ok /\ ret.tokens >= 2 /\ res.tokens >= ret.tokens
          /\ res'.tokens = res.tokens
          /\ res'.migrated = res.migrated /\ res'.found = res.found
          /\ Len(res'.errors) = Len(res.errors) + 1
          /\ SubSeq(res'.errors, 1, Len(res.errors)) = res.errors
          /\ res'.errors[Len(res'.errors)].kind = "Failed to write"
          /\ res'.errors[Len(res'.errors)].file = files[idx]
          /\ faulted' = faulted
          /\ IF idx < Len(files)
             THEN pc' = "migrate" /\ idx' = idx + 1
             ELSE pc' = "endpattern"
     /\ pc = "migrate" =>
          handled'[PatternOrder[pattern]][files[idx]] =
            handled[PatternOrder[pattern]][files[idx]] + 1]_vars

C18_Witness ==
  /\ pc = "endpattern" /\ ~faulted[PatternOrder[pattern]]
  /\ res.found = 2 /\ res.migrated = 1 /\ res.tokens >= 4
  /\ Len(res.errors) = 1 /\ res.errors[1].kind = "Failed to write"
  /\ res.errors[1].file = files[1]
  /\ handled[PatternOrder[pattern]][files[2]] = 1
  /\ written[PatternOrder[pattern]][files[2]] = 1

\* C19: whenever the security or the hibernate handler returns success the
\* returned text parses without errors, so no text that fails the check
\* is handed to the write-back or written to a Java file.
C19_SuccessIsWellFormed ==
  /\ (ret.ok /\ PatternOrder[pattern] \in {"security", "hibernate"}) =>
        ret.content.wf
  /\ (wmf # NoCall => wmf.new.wf)
  /\ \A f \in JavaFiles :
        fs[f].tag \in {"security", "hibernate"} => fs[f].wf

C19_Witness ==
  /\ pc = "wmf_ret" /\ wmf.ret
  /\ PatternOrder[pattern] = "hibernate"
  /\ ret.ok /\ ret.content.wf
  /\ fs[wmf.file] = ret.content
  /\ Len(pattern_results["security"].errors) = 1
  /\ pattern_results["security"].errors[1].msg = "syntax"

\* the fenced blocks of a response: an opening fence line, the lines up to
\* the next bare fence line, in order of appearance
RECURSIVE Blocks(_, _)
Blocks(resp, from) ==
  LET opens == {i \in from..Len(resp) : StartsFence(resp[i])}
  IN IF opens = {} THEN <<>>
     ELSE LET o == MinOf(opens)
              closes == {j \in (o + 1)..Len(resp) : resp[j] = "fence"}
          IN IF closes = {} THEN <<>>
             ELSE LET c == MinOf(closes)
                  IN <<[label |-> resp[o], body |-> SubSeq(resp, o + 1, c - 1)]>>
                     \o Blocks(resp, c + 1)

\* every fence line of the response opens or closes a fenced block
RECURSIVE WellFenced(_, _)
WellFenced(resp, from) ==
  LET opens == {i \in from..Len(resp) : StartsFence(resp[i])}
  IN IF opens = {} THEN TRUE
     ELSE LET o == MinOf(opens)
              inner == {j \in (o + 1)..Len(resp) : StartsFence(resp[j])}
          IN /\ inner # {}
             /\ resp[MinOf(inner)] = "fence"
             /\ WellFenced(resp, MinOf(inner) + 1)

\* labelled block, else any block, else the raw response
ByPriority(resp) ==
  LET bs == Blocks(resp, 1)
      labelled == {i \in 1..Len(bs) : bs[i].label = "flabel"}
  IN IF labelled # {} THEN bs[MinOf(labelled)].body
     ELSE IF Len(bs) > 0 THEN bs[1].body
     ELSE resp

\* C20: every handler extracts the migrated text with the same priority:
\* the body of a block labelled with the target format, else the body of
\* any fenced block, else the raw response (for responses whose fences
\* pair up).
C20_SameExtractionPriority ==
  (app.done /\ WellFenced(app.arg, 1)) => app.out = ByPriority(app.arg)

Applied(p) == [kind |-> "applied", arg |-> p]

TwiceAOnceB == <<Applied(1), Applied(1), Applied(2)>>

\* C21: for an output with two lines "Changes have been made to A by:" and
\* one line "Changes have been made to B by:" the parser returns 2.
C21_TwoPathsCountTwo ==
  (app.done /\ app.fn = "parse"
     /\ app.arg = TwiceAOnceB) => app.out = 2

\* C21 (as amended): for an output with two lines "Changes have been made to
\* A by:" and one line "Changes have been made to B by:" and no preview-mode
\* line the parser returns 3, one per matching line, wherever the three lines
\* stand: the paths are not deduplicated.
C21_EveryLineCounts ==
  (app.done /\ app.fn = "parse" /\ Len(app.arg) = 3
     /\ CountKind(app.arg, "applied") = 3
     /\ {app.arg[i].arg : i \in 1..3} = {1, 2}) => app.out = 3

C21_Witness ==
  app.done /\ app.fn = "parse" /\ app.arg = TwiceAOnceB /\ app.out = 3

\* the N of the first "Made N change" phrase at or after line i, 0 if none
RECURSIVE FirstMade(_, _)
FirstMade(out, i) ==
  IF i > Len(out) THEN 0
  ELSE IF out[i].kind = "made" THEN out[i].arg
  ELSE FirstMade(out, i + 1)

MatchingLines(out) ==
  Cardinality({i \in 1..Len(out) : out[i].kind \in {"applied", "planned"}})

\* C22: the changed-file count is the number of apply-mode lines plus the
\* number of preview-mode lines when that sum is positive, otherwise the N of
\* the first "Made N change" phrase, otherwise 0; a run whose subprocess
\* exits non-zero, times out or is missing reports 0 whatever the output.
C22_ChangeCount ==
  app.done =>
    IF app.fn = "run" /\ app.proc # "exit0" THEN app.out = 0
    ELSE IF MatchingLines(app.arg) > 0 THEN app.out = MatchingLines(app.arg)
    ELSE app.out = FirstMade(app.arg, 1)

C22_Witness ==
  /\ app.done /\ app.fn = "run" /\ app.proc = "exit0"
  /\ CountKind(app.arg, "applied") = 1 /\ CountKind(app.arg, "planned") = 1
  /\ CountKind(app.arg, "made") = 1
  /\ app.out = 2

Survives(c) == InText(c.old, app.original) /\ InText(c.old, app.migrated)

\* C23: for each renamed key the validator checks, if the original contains
\* the old key and the migrated text still contains it, the verdict is fail
\* with that key's issue, whether or not the new key appears in the migrated
\* text as well.
C23_SurvivingKeyFails ==
  app.done =>
    \A n \in 1..Len(deprecated_checks) :
      Survives(deprecated_checks[n]) =>
        /\ ~app.out.ok
        /\ \E j \in 1..Len(app.out.issues) :
             app.out.issues[j] = deprecated_checks[n].msg

InTree(src) ==
  \E i \in 1..Len(src) : src[i].where = "code" /\ src[i].what \in Annotations

\* C24: the hibernate detector returns a Java file only if its syntax tree
\* contains a deprecated annotation (@Type with arguments, @TypeDef or
\* @TypeDefs); a file that names a deprecated identifier only inside a
\* comment or a string literal is not returned.
C24_OnlyAnnotatedFiles ==
  (app.done /\ app.out) => InTree(app.arg)

SecondWriteBack ==
  /\ pc = "wmf_ret" /\ wmf.ret
  /\ PatternOrder[pattern] = "hibernate"
  /\ written["security"][wmf.file] = 1
  /\ wmf.pre.tag = "security"

\* C25: when write_migrated_file returns True the backup holds the content
\* the target had just before the call; so after a second successful
\* write-back of a file the backup holds what the first one wrote and no
\* longer the content that preceded the first.
C25_BackupIsOneDeep ==
  /\ (pc = "wmf_ret" /\ wmf.ret) => bak[wmf.file] = wmf.pre
  /\ SecondWriteBack =>
       /\ bak[wmf.file].tag = "security"
       /\ bak[wmf.file].tag # "orig"

C25_Witness ==
  /\ SecondWriteBack
  /\ bak[wmf.file].tag = "security"
  /\ fs[wmf.file].tag = "hibernate"

\* C26: in a run that is not a dry run every pattern result has
\* migrated <= found, and, when no fault was caught for the whole batch,
\* migrated + the number of its error entries = found.
C26_EveryTargetAccounted ==
  ~dry_run =>
    \A p \in PatternNames :
      p \in DOMAIN pattern_results =>
        /\ pattern_results[p].migrated <= pattern_results[p].found
        /\ ~faulted[p] =>
             pattern_results[p].migrated + Len(pattern_results[p].errors)
               = pattern_results[p].found

C26_Witness ==
  /\ ~dry_run
  /\ \E p \in PatternNames :
       /\ p \in DOMAIN pattern_results /\ ~faulted[p]
       /\ pattern_results[p].found = 2
       /\ pattern_results[p].migrated = 1
       /\ Len(pattern_results[p].errors) = 1

\* C27: when the result's success flag is true, the totals' migrated equals
\* the totals' found (both 0 in a dry run).
C27_SuccessMigratesAll ==
  (Returned /\ result.success) =>
    /\ "totals" \in DOMAIN result.pattern_results
    /\ result.pattern_results["totals"].migrated
         = result.pattern_results["totals"].found
    /\ result.claude_configs_migrated = result.claude_configs_found
    /\ dry_run => result.claude_configs_found = 0

C27_Witness ==
  /\ Returned /\ result.success /\ ~dry_run
  /\ result.pattern_results["totals"].found = 2
  /\ result.pattern_results["totals"].migrated = 2
  /\ result.pattern_results["hibernate"].migrated >= 1

\* C28: at the end of a run the recipe runner did not abort, the status the
\* driver logs is SUCCEEDED exactly when the result's success flag is true.
C28_StatusMatchesSuccess ==
  (Returned /\ ow_ok) => (status = "SUCCEEDED" <=> result.success)

====
